---- MODULE Spec2Model ----
(***************************************************************************)
(* Model of git_sync (src/main.go): main reads a configuration and, for    *)
(* every sync pair in order, doRepositoriesSync fetches the source         *)
(* repository into a local bare shadow clone and pushes the shadow to the  *)
(* destination.  The go-git calls (PlainOpen, PlainInit, CreateRemote,     *)
(* Fetch, Remote, Push) are modelled by their effect on the shadow's       *)
(* on-disk state and on the remote repositories' ref sets.                 *)
(***************************************************************************)
EXTENDS Integers, Sequences, FiniteSets, TLC

(* ------------------------------ bounds -------------------------------- *)
\* longest sync_options list of a configuration
MaxPairs == 2
\* number of times the program is started on the same filesystem
MaxRuns == 2
\* number of ref changes made by third parties at the remote repositories
MaxChanges == 1
\* object ids are 1..MaxOid; 0 stands for "ref absent"
MaxOid == 2

(* --------------------------- configuration ---------------------------- *)
\* the nil error
Nil == "nil"
\* a nil pointer (*RepositoryAccess, *git.Remote) and an absent ref set
NilPtr == [nil |-> TRUE]
\* a nil *git.Repository; a repository handle is the path it was opened at
NilRepo == << >>

\* RepositoriesSyncConfiguration.Repositories of the modelled config.json
Repositories ==
  << [RepoName |-> "a", RepoUrl |-> "git@host:a.git", RepoPemFileName |-> "a.pem"],
     [RepoName |-> "b", RepoUrl |-> "git@host:b.git", RepoPemFileName |-> "b.pem"],
     [RepoName |-> "c", RepoUrl |-> "git@host:c.git", RepoPemFileName |-> "c.pem"] >>

\* RepositoriesSyncConfiguration.ShadowsLocationBasePath
ShadowsLocationBasePath == "shadows"

\* the sync options a configuration may list: a plain pair, a second
\* destination for the same source, and pairs that name "x", which is no
\* configured repository
RepositorySyncOption ==
  { [SourceName |-> "a", DestinationName |-> "b"],
    [SourceName |-> "a", DestinationName |-> "c"],
    [SourceName |-> "x", DestinationName |-> "b"],
    [SourceName |-> "a", DestinationName |-> "x"] }

Urls == {Repositories[i].RepoUrl : i \in 1..Len(Repositories)}

\* git.DefaultRemoteName
DefaultRemoteName == "origin"

RefNames == {"refs/heads/main", "refs/heads/feature-x"}
\* a ref set: ref name -> object id, 0 when the ref does not exist
RefSet == [RefNames -> 0..MaxOid]
NoRefs == [n \in RefNames |-> 0]

(* getRepositoryAccess: first repository whose RepoName matches, else nil *)
RECURSIVE getRepositoryAccessFrom(_, _)
getRepositoryAccessFrom(i, repoName) ==
  IF i > Len(Repositories) THEN NilPtr
  ELSE IF Repositories[i].RepoName = repoName THEN Repositories[i]
  ELSE getRepositoryAccessFrom(i + 1, repoName)

getRepositoryAccess(repoName) == getRepositoryAccessFrom(1, repoName)

\* line 87 dropped: nothing is written to the hasher, the digest is that of
\* the empty input
Sha256HexOfNothing(url) ==
  "e3b0c44298fc1c149afbf4c8996fb92427ae41e4649b934ca495991b7852b855"

(* hex.EncodeToString(sha256(url)) for the URLs of the modelled config and
   of UrlCorpus *)
Sha256Hex(url) ==
  CASE url = "git@host:a.git" ->
         "a676eda753954045d2769eb3e508f6bdab1ac0dd9faef1c5a65db59ff2b620b3"
    [] url = "git@host:b.git" ->
         "bff9cd4bd8b9ddd8d0acaff0e68c3269953e17c2f169c02d52c1f98fd2e6cde8"
    [] url = "git@host:c.git" ->
         "84a37d4493c79b85d4962abfc298cdae1653c98537595212fa3a33d3b9877cac"
    [] url = "git@host:a.git/" ->
         "ca09b658bf84b97443dcc0a0f13a25a0a92bb5cb67515a25273790f6a093132d"
    [] url = "git@host:A.git" ->
         "efaf7e541d96b6771cbdaaa9c3e12fe970964e6befd82ce7614c39b6f2629f1c"
    [] url = "git@host:a" ->
         "b2cd8e5a044a8061db09e14c36cef73b2fafa945d5b91e6270dc6409540b38b1"
    [] url = "ssh://git@host/a.git" ->
         "391f72e79030f1c3dc7e9107fa07a0827c88f47eb3ccd64fb63a4ebe3983a2f0"
    [] url = "https://host/a.git" ->
         "9ca3a04b04e5c36ae8c4bd1d15a5dd9e58fab04e25629144c3aeb8e45b973a1b"
    [] url = "" ->
         "e3b0c44298fc1c149afbf4c8996fb92427ae41e4649b934ca495991b7852b855"

\* filepath.Join(tmpPath, sourceSha256sum)
SourceClonePath(sourceRepoUrl, tmpPath) == <<tmpPath, Sha256Hex(sourceRepoUrl)>>

Paths == {SourceClonePath(u, ShadowsLocationBasePath) : u \in Urls}

\* source URLs and shadows locations a configuration may carry: the modelled
\* ones and near variants of one of them
UrlCorpus == Urls \cup {"git@host:a.git/", "git@host:A.git", "git@host:a",
                        "ssh://git@host/a.git", "https://host/a.git", ""}
BasePaths == {ShadowsLocationBasePath, "mirrors"}

\* repositoryShadowCreateDir's computation of the path, as a record of the call
Derivation(sourceRepoUrl, tmpPath) ==
  [url |-> sourceRepoUrl, tmpPath |-> tmpPath,
   path |-> SourceClonePath(sourceRepoUrl, tmpPath)]

\* ssh.NewPublicKeysFromFile("git", file, password): the credential read
PublicKeys(access) == [User |-> "git", Key |-> access.RepoPemFileName]

(* ------------------------------ go-git -------------------------------- *)
\* a fetch or push with refspec +refs/*:refs/* and no Prune: every ref of
\* the sending side overwrites the receiving side's ref of the same name,
\* refs the sending side does not have are left alone
MirrorRefs(from, to) == [n \in RefNames |-> IF from[n] # 0 THEN from[n] ELSE to[n]]

\* Remote.Fetch: an empty remote is transport.ErrEmptyRemoteRepository,
\* nothing to update is NoErrAlreadyUpToDate
FetchErr(local, remote) ==
  IF remote = NoRefs THEN "ErrEmptyRemoteRepository"
  ELSE IF MirrorRefs(remote, local) = local THEN "NoErrAlreadyUpToDate"
  ELSE Nil

\* Remote.Push: nothing to update is NoErrAlreadyUpToDate
PushErr(local, remote) ==
  IF MirrorRefs(local, remote) = remote THEN "NoErrAlreadyUpToDate" ELSE Nil

\* a test of a fetch or push error without the exemption of the
\* already-up-to-date outcome
UpdateFetchFailedNoExemption(e) == e # Nil
PushFailedNoExemption(e) == e # Nil

\* the error of the push is never passed on
PushFailedSwallowed(e) == FALSE

\* the code's test "err != nil && err != git.NoErrAlreadyUpToDate" after the
\* fetch of repositoryShadowInit, the fetch of repositoryShadowUpdate and the
\* push of repositoryShadowPushToNewOrigin
InitFetchFailed(e) == e # Nil /\ e # "NoErrAlreadyUpToDate"
UpdateFetchFailed(e) == e # Nil /\ e # "NoErrAlreadyUpToDate"
PushFailed(e) == e # Nil /\ e # "NoErrAlreadyUpToDate"

(* ------------------------------- state -------------------------------- *)
VARIABLES
  syncOptions,            \* rsc.SyncOptions of config.json
  remoteRefs,             \* ref set of the repository behind every URL
  changes,                \* number of third-party ref changes so far
  shadow,                 \* on-disk state of every shadow path
  run,                    \* how many times the program was started
  pc,                     \* position in main / doRepositoriesSync
  idx,                    \* index of the range loop of main
  syncOptionSource,       \* locals of doRepositoriesSync
  syncOptionDestination,
  sourceClonePath,
  r,
  err,
  remoteDestination,      \* the *git.Remote held by repositoryShadowPushToNewOrigin
  exit,                   \* process status
  ops,                    \* per pair of this run: provider operations attempted
  srcAtFetch,             \* source ref set seen by this sync's successful fetch
  lastEnsure,             \* per path: source ref set at the last successful ensure
  fetched,                \* <<url, credential>> of every fetch, over all runs
  pushed,                 \* <<url, credential>> of every push, over all runs
  derived                 \* every shadow path derivation made, over all runs

world == <<syncOptions, remoteRefs, changes>>
locals == <<syncOptionSource, syncOptionDestination, sourceClonePath, r, err,
            remoteDestination>>
ghost == <<ops, srcAtFetch, lastEnsure, fetched, pushed, derived>>
vars == <<syncOptions, remoteRefs, changes, shadow, run, pc, idx,
          syncOptionSource, syncOptionDestination, sourceClonePath, r, err,
          remoteDestination, exit, ops, srcAtFetch, lastEnsure, fetched, pushed,
          derived>>

\* the sync_options lists a configuration may hold
SyncOptionLists == UNION {[1..n -> RepositorySyncOption] : n \in 1..MaxPairs}

\* a directory with no repository in it
NoShadow == [dir |-> FALSE, repo |-> FALSE, remotes |-> {}, refs |-> NoRefs]

\* ref sets of the remote repositories when the program is first started:
\* a has two branches, b is empty, c holds a main of its own
InitialRemoteRefs ==
  [u \in Urls |->
     CASE u = "git@host:a.git" -> [n \in RefNames |-> 1]
       [] u = "git@host:b.git" -> NoRefs
       [] u = "git@host:c.git" ->
            [n \in RefNames |-> IF n = "refs/heads/main" THEN MaxOid ELSE 0]]

Init ==
  /\ syncOptions \in SyncOptionLists
  /\ remoteRefs = InitialRemoteRefs
  /\ changes = 0
  /\ shadow = [p \in Paths |-> NoShadow]
  /\ run = 1
  /\ pc = "start"
  /\ idx = 0
  /\ syncOptionSource = NilPtr
  /\ syncOptionDestination = NilPtr
  /\ sourceClonePath = NilRepo
  /\ r = NilRepo
  /\ err = Nil
  /\ remoteDestination = NilPtr
  /\ exit = "running"
  /\ ops = [i \in 1..Len(syncOptions) |-> {}]
  /\ srcAtFetch = NilPtr
  /\ lastEnsure = [p \in Paths |-> NilPtr]
  /\ fetched = {}
  /\ pushed = {}
  /\ derived = {}

\* record that the current pair attempted the operation op
Did(op) == ops' = [ops EXCEPT ![idx] = @ \cup {op}]
DidAll(S) == ops' = [ops EXCEPT ![idx] = @ \cup S]

\* log.Fatal: the process ends with status 1
Fatal == exit' = "exit1" /\ pc' = "done"
\* a nil pointer dereference: the process panics (status 2)
Panic == exit' = "panic" /\ pc' = "done"

(* ------------------------------- main --------------------------------- *)
\* main, lines 19-24: read config.json, log.Fatal when that fails
readRepositoriesSyncConfiguration ==
  /\ pc = "start"
  /\ \E ok \in BOOLEAN :
       IF ok THEN /\ pc' = "loop" /\ idx' = 1 /\ exit' = exit
             ELSE /\ Fatal /\ idx' = idx
  /\ UNCHANGED <<world, shadow, run, locals, ghost>>

\* main, lines 26-27: the next sync option, doRepositoriesSync lines 195-196
MainLoopCall ==
  /\ pc = "loop"
  /\ idx <= Len(syncOptions)
  /\ syncOptionSource' = getRepositoryAccess(syncOptions[idx].SourceName)
  /\ syncOptionDestination' = getRepositoryAccess(syncOptions[idx].DestinationName)
  /\ sourceClonePath' = NilRepo
  /\ r' = NilRepo
  /\ err' = Nil
  /\ remoteDestination' = NilPtr
  /\ srcAtFetch' = NilPtr
  /\ pc' = "createdir"
  /\ UNCHANGED <<world, shadow, run, idx, exit, ops, lastEnsure, fetched, pushed,
                 derived>>

\* main, line 26 and 32: the range is exhausted, main returns (status 0)
MainLoopEnd ==
  /\ pc = "loop"
  /\ idx > Len(syncOptions)
  /\ exit' = "exit0"
  /\ pc' = "done"
  /\ UNCHANGED <<world, shadow, run, idx, locals, ghost>>

\* main going on with the next pair whatever doRepositoriesSync returned
MainCheckErrIgnored ==
  /\ pc = "returned"
  /\ pc' = "loop" /\ idx' = idx + 1 /\ exit' = exit
  /\ UNCHANGED <<world, shadow, run, locals, ghost>>

\* main starting over with the same pair after a successful sync
MainCheckErrNoAdvance ==
  /\ pc = "returned"
  /\ IF err # Nil THEN /\ Fatal /\ idx' = idx
                  ELSE /\ pc' = "loop" /\ idx' = idx /\ exit' = exit
  /\ UNCHANGED <<world, shadow, run, locals, ghost>>

\* main, lines 28-30: doRepositoriesSync returned
MainCheckErr ==
  /\ pc = "returned"
  /\ IF err # Nil THEN /\ Fatal /\ idx' = idx
                  ELSE /\ pc' = "loop" /\ idx' = idx + 1 /\ exit' = exit
  /\ UNCHANGED <<world, shadow, run, locals, ghost>>

\* the operator starts the program again on the same filesystem
RunMain ==
  /\ pc = "done"
  /\ run < MaxRuns
  /\ run' = run + 1
  /\ pc' = "start"
  /\ idx' = 0
  /\ exit' = "running"
  /\ syncOptionSource' = NilPtr
  /\ syncOptionDestination' = NilPtr
  /\ sourceClonePath' = NilRepo
  /\ r' = NilRepo
  /\ err' = Nil
  /\ remoteDestination' = NilPtr
  /\ srcAtFetch' = NilPtr
  /\ ops' = [i \in 1..Len(syncOptions) |-> {}]
  /\ UNCHANGED <<world, shadow, lastEnsure, fetched, pushed, derived>>

\* URLs of the repositories named by some sync option
SyncedUrls ==
  {u \in Urls : \E i \in 1..Len(syncOptions) :
     \E a \in {getRepositoryAccess(syncOptions[i].SourceName),
               getRepositoryAccess(syncOptions[i].DestinationName)} :
       a # NilPtr /\ a.RepoUrl = u}

\* a third party creates, moves or deletes a ref of a remote repository.
\* The program reads the remote ref sets only in its fetch and its push, so
\* the changes are taken where they can first be observed: before a sync
\* starts and between a sync's fetch and its push, at the repositories the
\* configuration's sync options name.
UpstreamChange ==
  /\ changes < MaxChanges
  /\ pc \in {"loop", "push"}
  /\ \E u \in SyncedUrls, n \in RefNames, v \in 0..MaxOid :
       /\ v # remoteRefs[u][n]
       /\ remoteRefs' = [remoteRefs EXCEPT ![u][n] = v]
  /\ changes' = changes + 1
  /\ UNCHANGED <<syncOptions, shadow, run, pc, idx, locals, exit, ghost>>

(* ------------------------- doRepositoriesSync ------------------------- *)
\* the refspec of the remote created by repositoryShadowInit and of the push
MirrorRefSpec == "+refs/*:refs/*"

\* Repository.Remote(name) on the configuration stored at path p: the set of
\* stored remotes of that name (empty: ErrRemoteNotFound)
StoredRemotes(p, name) == {rc \in shadow[p].remotes : rc.Name = name}

\* lines 198-201 and repositoryShadowCreateDir: os.MkdirAll of the digest path;
\* a nil syncOptionSource is dereferenced at line 198
repositoryShadowCreateDir ==
  /\ pc = "createdir"
  /\ IF syncOptionSource = NilPtr
     THEN /\ Panic
          /\ UNCHANGED <<shadow, sourceClonePath, err, ops, derived>>
     ELSE \E ok \in BOOLEAN :
            LET d == Derivation(syncOptionSource.RepoUrl, ShadowsLocationBasePath)
                p == d.path
            IN
            /\ Did("mkdir")
            /\ derived' = derived \cup {d}
            /\ exit' = exit
            /\ IF ok THEN /\ shadow' = [shadow EXCEPT ![p].dir = TRUE]
                          /\ sourceClonePath' = p
                          /\ err' = Nil
                          /\ pc' = "srckey"
                     ELSE /\ shadow' = shadow
                          /\ sourceClonePath' = NilRepo
                          /\ err' = "IOError"
                          /\ pc' = "returned"
  /\ UNCHANGED <<world, run, idx, syncOptionSource, syncOptionDestination, r,
                 remoteDestination, srcAtFetch, lastEnsure, fetched, pushed>>

\* lines 203-210: repositorySshKeyRead of the source's key file
repositorySshKeyReadSource ==
  /\ pc = "srckey"
  /\ Did("srckey")
  /\ \E ok \in BOOLEAN :
       IF ok THEN /\ err' = Nil /\ pc' = "checkinit"
             ELSE /\ err' = "AuthError" /\ pc' = "returned"
  /\ UNCHANGED <<world, shadow, run, idx, syncOptionSource, syncOptionDestination,
                 sourceClonePath, r, remoteDestination, exit, srcAtFetch,
                 lastEnsure, fetched, pushed, derived>>

\* line 116 dropped: every error of git.PlainOpen is taken for "no repository"
ShadowCheckInitAnyErrorIsAbsent(e, p) ==
  IF e # Nil THEN [r |-> NilRepo, err |-> Nil] ELSE [r |-> p, err |-> Nil]

\* the repository found by git.PlainOpen is never handed back
ShadowCheckInitNeverReuses(e, p) ==
  IF e # Nil /\ e # "ErrRepositoryNotExists"
  THEN [r |-> NilRepo, err |-> e]
  ELSE [r |-> NilRepo, err |-> Nil]

\* lines 115-122, what repositoryShadowCheckInit returns when git.PlainOpen
\* of path p gave error e: ErrRepositoryNotExists gives (nil, nil), another
\* error is returned, no error gives the opened repository
ShadowCheckInit(e, p) ==
  IF e # Nil /\ e # "ErrRepositoryNotExists"
  THEN [r |-> NilRepo, err |-> e]
  ELSE IF e # Nil /\ e = "ErrRepositoryNotExists"
  THEN [r |-> NilRepo, err |-> Nil]
  ELSE [r |-> p, err |-> Nil]

\* lines 212-217 and repositoryShadowCheckInit: git.PlainOpen of the shadow
\* path; an error is returned by doRepositoriesSync (line 214), r == nil
\* selects repositoryShadowInit and r != nil repositoryShadowUpdate (line 217)
repositoryShadowCheckInit ==
  /\ pc = "checkinit"
  /\ \E openFails \in BOOLEAN :
       LET e == IF openFails THEN "OpenError"
                ELSE IF shadow[sourceClonePath].repo THEN Nil
                ELSE "ErrRepositoryNotExists"
           res == ShadowCheckInit(e, sourceClonePath)
       IN
       /\ DidAll({"open"} \cup (IF openFails THEN {"openerror"} ELSE {}))
       /\ r' = res.r
       /\ err' = res.err
       /\ pc' = IF res.err # Nil THEN "returned"
                ELSE IF res.r = NilRepo THEN "init"
                ELSE "update"
  /\ UNCHANGED <<world, shadow, run, idx, syncOptionSource, syncOptionDestination,
                 sourceClonePath, remoteDestination, exit, srcAtFetch,
                 lastEnsure, fetched, pushed, derived>>

\* what doRepositoriesSync does after line 218 or 220 assigned r and err:
\* it goes on to line 223
AfterEnsure(rNew, errNew) ==
  /\ r' = rNew
  /\ err' = errNew
  /\ pc' = "dstkey"

\* line 218 and repositoryShadowInit: PlainInit (bare), CreateRemote origin ->
\* source URL, fetch; each may fail, what was written before stays on disk
repositoryShadowInit ==
  /\ pc = "init"
  /\ r = NilRepo
  /\ \E outcome \in {"PlainInitError", "CreateRemoteError", "TransportError", "ok"} :
       LET p == sourceClonePath
           url == syncOptionSource.RepoUrl
           remoteSource == [Name |-> DefaultRemoteName, URLs |-> <<url>>,
                            Fetch |-> MirrorRefSpec]
           e == IF outcome = "ok" THEN FetchErr(shadow[p].refs, remoteRefs[url])
                ELSE outcome
       IN
       IF outcome = "PlainInitError"
       THEN /\ DidAll({"init", "plaininit"})
            /\ UNCHANGED <<shadow, srcAtFetch, fetched>>
            /\ lastEnsure' = [lastEnsure EXCEPT ![p] = NilPtr]
            /\ AfterEnsure(NilRepo, e)
       ELSE IF outcome = "CreateRemoteError"
       THEN /\ DidAll({"init", "plaininit", "createremote"})
            /\ shadow' = [shadow EXCEPT ![p].repo = TRUE]
            /\ UNCHANGED <<srcAtFetch, fetched>>
            /\ lastEnsure' = [lastEnsure EXCEPT ![p] = NilPtr]
            /\ AfterEnsure(NilRepo, e)
       ELSE /\ DidAll({"init", "plaininit", "createremote", "fetch"})
            /\ fetched' = fetched \cup {<<url, PublicKeys(syncOptionSource)>>}
            /\ IF InitFetchFailed(e)
               THEN /\ shadow' = [shadow EXCEPT ![p].repo = TRUE,
                                                ![p].remotes = @ \cup {remoteSource}]
                    /\ srcAtFetch' = srcAtFetch
                    /\ lastEnsure' = [lastEnsure EXCEPT ![p] = NilPtr]
                    /\ AfterEnsure(NilRepo, e)
               ELSE /\ shadow' = [shadow EXCEPT
                                    ![p].repo = TRUE,
                                    ![p].remotes = @ \cup {remoteSource},
                                    ![p].refs = MirrorRefs(remoteRefs[url], @)]
                    /\ srcAtFetch' = remoteRefs[url]
                    /\ lastEnsure' = [lastEnsure EXCEPT ![p] = remoteRefs[url]]
                    /\ AfterEnsure(p, Nil)
  /\ UNCHANGED <<world, run, idx, syncOptionSource, syncOptionDestination,
                 sourceClonePath, remoteDestination, exit, pushed, derived>>

\* line 220 and repositoryShadowUpdate: PlainOpen again, then Repository.Fetch
\* from the remote named origin as stored in the shadow's configuration
repositoryShadowUpdate ==
  /\ pc = "update"
  /\ r # NilRepo
  /\ \E outcome \in {"OpenError", "TransportError", "ok"} :
       LET p == sourceClonePath
           found == StoredRemotes(p, DefaultRemoteName)
           url == (CHOOSE rc \in found : TRUE).URLs[1]
           e == IF outcome = "OpenError" THEN outcome
                ELSE IF found = {} THEN "ErrRemoteNotFound"
                ELSE IF outcome = "TransportError" THEN outcome
                ELSE FetchErr(shadow[p].refs, remoteRefs[url])
       IN
       /\ IF outcome = "OpenError"
          THEN /\ DidAll({"update", "open"}) /\ fetched' = fetched
          ELSE IF found = {}
          THEN /\ DidAll({"update", "open", "fetch"}) /\ fetched' = fetched
          ELSE /\ DidAll({"update", "open", "fetch"})
               /\ fetched' = fetched \cup {<<url, PublicKeys(syncOptionSource)>>}
       /\ IF UpdateFetchFailed(e)
          THEN /\ UNCHANGED <<shadow, srcAtFetch>>
               /\ lastEnsure' = [lastEnsure EXCEPT ![p] = NilPtr]
               /\ AfterEnsure(NilRepo, e)
          ELSE /\ shadow' = [shadow EXCEPT ![p].refs = MirrorRefs(remoteRefs[url], @)]
               /\ srcAtFetch' = remoteRefs[url]
               /\ lastEnsure' = [lastEnsure EXCEPT ![p] = remoteRefs[url]]
               /\ AfterEnsure(p, Nil)
  /\ UNCHANGED <<world, run, idx, syncOptionSource, syncOptionDestination,
                 sourceClonePath, remoteDestination, exit, pushed, derived>>

\* lines 228-230 left out: the push is tried whatever the key read returned
AfterDestinationKeyUnchecked(e) == pc' = "push"

\* lines 228-230: return the error of the destination key read, if any
AfterDestinationKey(e) == pc' = IF e # Nil THEN "returned" ELSE "push"

\* lines 223-230: repositorySshKeyRead of the destination's key file; err is
\* assigned anew; a nil syncOptionDestination is dereferenced at line 224
repositorySshKeyReadDestination ==
  /\ pc = "dstkey"
  /\ IF syncOptionDestination = NilPtr
     THEN /\ Panic
          /\ UNCHANGED <<err, ops>>
     ELSE /\ Did("dstkey")
          /\ exit' = exit
          /\ \E e \in {Nil, "AuthError"} :
               /\ err' = e
               /\ AfterDestinationKey(e)
  /\ UNCHANGED <<world, shadow, run, idx, syncOptionSource, syncOptionDestination,
                 sourceClonePath, r, remoteDestination, srcAtFetch, lastEnsure,
                 fetched, pushed, derived>>

\* line 176 left out: the remote keeps the URL list it was loaded with
RewiredURLsKept(old, destinationRepoUrl) == old

\* line 176 adding to the URL list instead of replacing it
RewiredURLsAppended(old, destinationRepoUrl) == Append(old, destinationRepoUrl)

\* the URL list line 176 gives the remote it holds
RewiredURLs(old, destinationRepoUrl) == <<destinationRepoUrl>>

\* the remote object of line 176 written back to the shadow's configuration
StoredAfterRewireSaved(p, rewired) == [shadow EXCEPT ![p].remotes = {rewired}]

\* lines 176-178, the shadow's stored configuration once the URL list of the
\* remote object was replaced: the object is not saved, the disk is as before
StoredAfterRewire(p, rewired) == shadow

\* lines 232-237 and repositoryShadowPushToNewOrigin: look the origin remote
\* up, replace the URL list of the remote object held, push every ref to it.
\* A nil r (line 172) and a nil remote (line 176) are dereferenced.
repositoryShadowPushToNewOrigin ==
  /\ pc = "push"
  /\ IF r = NilRepo
     THEN /\ Panic
          /\ UNCHANGED <<remoteRefs, shadow, err, remoteDestination, ops, pushed>>
     ELSE \E outcome \in {"ConfigError", "TransportError", "ok"} :
            LET found == StoredRemotes(r, DefaultRemoteName)
                url == syncOptionDestination.RepoUrl
                rem == CHOOSE rc \in found : TRUE
                rewired == [rem EXCEPT !.URLs = RewiredURLs(@, url)]
                target == rewired.URLs[1]
                e == IF outcome = "ok"
                     THEN PushErr(shadow[r].refs, remoteRefs[target])
                     ELSE outcome
            IN
            IF outcome = "ConfigError"
            THEN /\ err' = e /\ pc' = "returned" /\ exit' = exit
                 /\ UNCHANGED <<remoteRefs, shadow, remoteDestination, ops, pushed>>
            ELSE IF found = {}
            THEN /\ Panic
                 /\ UNCHANGED <<remoteRefs, shadow, err, remoteDestination, ops, pushed>>
            ELSE /\ remoteDestination' = rewired
                 /\ shadow' = StoredAfterRewire(r, rewired)
                 /\ DidAll({"rewire", "push"})
                 /\ pushed' = pushed \cup {<<target, PublicKeys(syncOptionDestination)>>}
                 /\ remoteRefs' =
                      IF outcome = "ok"
                      THEN [remoteRefs EXCEPT ![target] = MirrorRefs(shadow[r].refs, @)]
                      ELSE remoteRefs
                 /\ err' = IF PushFailed(e) THEN e ELSE Nil
                 /\ pc' = "returned"
                 /\ exit' = exit
  /\ UNCHANGED <<syncOptions, changes, run, idx, syncOptionSource,
                 syncOptionDestination, sourceClonePath, r, srcAtFetch,
                 lastEnsure, fetched, derived>>

(* --------------------------- specification ---------------------------- *)
doRepositoriesSync ==
  \/ repositoryShadowCreateDir
  \/ repositorySshKeyReadSource
  \/ repositoryShadowCheckInit
  \/ repositoryShadowInit
  \/ repositoryShadowUpdate
  \/ repositorySshKeyReadDestination
  \/ repositoryShadowPushToNewOrigin

main ==
  \/ readRepositoriesSyncConfiguration
  \/ MainLoopCall
  \/ MainLoopEnd
  \/ MainCheckErr
  \/ doRepositoriesSync

Next == main \/ RunMain \/ UpstreamChange

Spec == Init /\ [][Next]_vars

(* ------------------------------ claims -------------------------------- *)
\* the locals describe the sync of pair idx: it is running, has returned, or
\* has ended the process
Current == idx \in 1..Len(syncOptions) /\ pc \notin {"start", "loop"}

\* the ensure-up-to-date step (Init or Update) of the current sync has run
EnsureRan == Current /\ ops[idx] \cap {"init", "update"} # {}
\* ... and failed: no fetch of this sync succeeded
EnsureFailed == EnsureRan /\ srcAtFetch = NilPtr
\* ... and succeeded
EnsureSucceeded == EnsureRan /\ srcAtFetch # NilPtr

\* doRepositoriesSync returned nil for the current pair
SyncSucceeded == Current /\ pc = "returned" /\ err = Nil

\* C1: when the shadow Init or Update step fails, doRepositoriesSync performs
\* no later step: it reads no destination credential, rewires no remote,
\* attempts no push, and the process does not crash
C1_FailedEnsureEndsSync ==
  (EnsureFailed /\ syncOptionDestination # NilPtr) =>
    /\ ops[idx] \cap {"dstkey", "rewire", "push"} = {}
    /\ exit # "panic"

\* C2: a sync pair whose source or destination name matches no configured
\* repository fails with an error before any further step: nothing is
\* created, read, fetched or pushed, and the process does not crash
C2_LookupMissIsAnError ==
  (Current /\ (syncOptionSource = NilPtr \/ syncOptionDestination = NilPtr)) =>
    /\ ops[idx] = {}
    /\ exit # "panic"

\* C3: whenever doRepositoriesSync returns success for a pair (S, D), the ref
\* set of D equals the ref set S had at that sync's fetch
C3_FullMirror ==
  SyncSucceeded => remoteRefs[syncOptionDestination.RepoUrl] = srcAtFetch

\* the remote bindings stored in the configuration of the current shadow
StoredBindings == shadow[sourceClonePath].remotes

\* C4 as stated: after every successful doRepositoriesSync the shadow clone
\* has exactly one remote binding, and the URL of that binding on the shadow
\* is the pair's destination URL, not the source URL
C4_ShadowBindingIsDestination ==
  SyncSucceeded =>
    /\ Cardinality(StoredBindings) = 1
    /\ \A rc \in StoredBindings : rc.URLs = <<syncOptionDestination.RepoUrl>>

\* C4 amended: after every successful doRepositoriesSync the shadow clone has
\* exactly one remote binding, named origin; the remote object the push used
\* carries exactly one URL, the destination URL, while the binding stored on
\* the shadow keeps the source URL (the rewrite is never saved)
C4_RewireIsInMemoryOnly ==
  SyncSucceeded =>
    /\ Cardinality(StoredBindings) = 1
    /\ \A rc \in StoredBindings :
         /\ rc.Name = DefaultRemoteName
         /\ rc.URLs = <<syncOptionSource.RepoUrl>>
    /\ remoteDestination # NilPtr
    /\ remoteDestination.Name = DefaultRemoteName
    /\ remoteDestination.URLs = <<syncOptionDestination.RepoUrl>>

\* a sync of a pair with distinct source and destination URLs succeeded
C4_Witness ==
  /\ SyncSucceeded
  /\ "rewire" \in ops[idx]
  /\ syncOptionSource.RepoUrl # syncOptionDestination.RepoUrl

\* C5: after every successful ensure-up-to-date step the shadow's ref set is
\* the source's ref set at fetch time (refs deleted at the source are not
\* retained), and every fetch went to the source of the pair
C5_ShadowIsCompleteMirror ==
  EnsureSucceeded =>
    /\ shadow[sourceClonePath].refs = srcAtFetch
    /\ \A f \in fetched : f[1] = syncOptionSource.RepoUrl

\* C6: a shadow clone never has more than one remote binding, a binding never
\* has more than one URL, and the remote object rewired for the push has
\* exactly one URL
C6_SingleRemoteSlot ==
  /\ \A p \in Paths :
       /\ Cardinality(shadow[p].remotes) <= 1
       /\ \A rc \in shadow[p].remotes : Len(rc.URLs) = 1
  /\ remoteDestination # NilPtr => Len(remoteDestination.URLs) = 1

\* the second pair of a run, with the same source as the first and another
\* destination, has updated the shadow and rewired its remote
C6_Witness ==
  /\ Current
  /\ idx = 2
  /\ syncOptions[1].SourceName = syncOptions[2].SourceName
  /\ syncOptions[1].DestinationName # syncOptions[2].DestinationName
  /\ {"rewire", "push"} \subseteq ops[1]
  /\ {"update", "rewire"} \subseteq ops[2]

\* errors of the provider that say the operation itself could not be run
ProviderFailures == {"OpenError", "TransportError", "ConfigError"}

\* C7: when the ensure-up-to-date step runs on a shadow whose previous ensure
\* step succeeded and the source has not changed since, it reports success
\* and leaves the shadow's ref set as it was (unless the provider fails)
C7_EnsureIsIdempotent ==
  [][ ( /\ pc \in {"init", "update"}
        /\ pc' = "dstkey"
        /\ lastEnsure[sourceClonePath] # NilPtr
        /\ lastEnsure[sourceClonePath] = remoteRefs[syncOptionSource.RepoUrl]
        /\ err' \notin ProviderFailures )
      => ( /\ err' = Nil
           /\ r' = sourceClonePath
           /\ pc = "update"
           /\ shadow'[sourceClonePath].refs = shadow[sourceClonePath].refs ) ]_vars

\* the second pair of a run has updated, with success and with no upstream
\* change since the program started, the shadow that the first pair's ensure
\* step brought up to date
C7_Witness ==
  /\ Current
  /\ idx = 2
  /\ run = 1
  /\ changes = 0
  /\ {"fetch", "push"} \subseteq ops[1]
  /\ "update" \in ops[2]
  /\ pc = "dstkey"
  /\ err = Nil
  /\ r # NilRepo

\* C8: when reading the destination credential fails, doRepositoriesSync
\* returns that error with no remote rewired and no push attempted, and the
\* shadow still holds every ref the preceding fetch gave it
C8_DestinationAuthErrorEndsSync ==
  (Current /\ "dstkey" \in ops[idx] /\ err = "AuthError") =>
    /\ pc \in {"returned", "done"}
    /\ exit # "panic"
    /\ ops[idx] \cap {"rewire", "push"} = {}
    /\ remoteDestination = NilPtr
    /\ EnsureSucceeded =>
         MirrorRefs(srcAtFetch, shadow[sourceClonePath].refs)
           = shadow[sourceClonePath].refs

\* the destination credential failed after a fetch that updated the shadow
C8_Witness ==
  /\ Current
  /\ "dstkey" \in ops[idx]
  /\ err = "AuthError"
  /\ pc = "returned"
  /\ EnsureSucceeded
  /\ shadow[sourceClonePath].refs # NoRefs

\* C9: pairs are synced one at a time in configuration order: no operation
\* of a pair after the current one has been performed, every pair before it
\* was synced through to its push, a failed doRepositoriesSync ends the
\* process with a failure status, and status 0 means every pair was done
C9_FailFastBatch ==
  /\ [] /\ \A j \in DOMAIN ops : j > idx => ops[j] = {}
        /\ \A j \in DOMAIN ops :
             j < idx => {"fetch", "rewire", "push"} \subseteq ops[j]
        /\ exit \in {"exit1", "panic"} => pc = "done"
        /\ (pc = "done" /\ Current) => exit \in {"exit1", "panic"}
        /\ exit = "exit0" => idx = Len(syncOptions) + 1
  /\ [][ /\ (pc = "returned" /\ err # Nil) => (exit' = "exit1" /\ pc' = "done")
         /\ exit \in {"exit1", "panic"} => run' = run + 1 ]_vars

\* the first of two pairs failed after its fetch and the process has ended
C9_Witness ==
  /\ Len(syncOptions) = 2
  /\ idx = 1
  /\ pc = "done"
  /\ exit = "exit1"
  /\ "fetch" \in ops[1]
  /\ ops[2] = {}

\* the stored origin remote of the current shadow, when there is exactly one
OriginUrl == (CHOOSE rc \in StoredRemotes(sourceClonePath, DefaultRemoteName) : TRUE).URLs[1]

\* C10: an already-up-to-date outcome of the Init fetch, the Update fetch or
\* the push is a success: the step changes no ref set, doRepositoriesSync
\* goes on (or returns nil), and main goes on with the next pair
C10_UpToDateIsSuccess ==
  [][ /\ ( /\ pc \in {"init", "update"}
           /\ pc' = "dstkey"
           /\ err' \notin ProviderFailures \cup {"PlainInitError", "CreateRemoteError"}
           /\ LET url == IF pc = "init" THEN syncOptionSource.RepoUrl ELSE OriginUrl
              IN  /\ pc = "update" => StoredRemotes(sourceClonePath, DefaultRemoteName) # {}
                  /\ FetchErr(shadow[sourceClonePath].refs, remoteRefs[url])
                       = "NoErrAlreadyUpToDate" )
         => ( /\ err' = Nil
              /\ r' = sourceClonePath
              /\ shadow'[sourceClonePath].refs = shadow[sourceClonePath].refs
              /\ remoteRefs' = remoteRefs )
      /\ ( /\ pc = "push"
           /\ pc' = "returned"
           /\ err' \notin ProviderFailures
           /\ PushErr(shadow[r].refs, remoteRefs[syncOptionDestination.RepoUrl])
                = "NoErrAlreadyUpToDate" )
         => ( /\ err' = Nil
              /\ shadow' = shadow
              /\ remoteRefs' = remoteRefs )
      /\ (pc = "returned" /\ err = Nil)
         => (pc' = "loop" /\ idx' = idx + 1 /\ exit' = "running") ]_vars

\* a sync whose fetch and whose push both found nothing to transfer returned
\* nil: the second sync of the same pair with no upstream change
C10_Witness ==
  /\ SyncSucceeded
  /\ idx = 2
  /\ run = 1
  /\ changes = 0
  /\ syncOptions[1] = syncOptions[2]
  /\ {"fetch", "push"} \subseteq ops[1]
  /\ {"update", "fetch", "push"} \subseteq ops[2]

\* the step of repositoryShadowCheckInit and the choice of line 217
CheckInitStep == pc = "checkinit" /\ pc' # "checkinit"

\* C11: the Init transition is taken exactly when the open of the shadow path
\* reports that no repository is there, the Update transition exactly when the
\* open succeeds; any other open error ends the sync: it is returned, and
\* neither Init, Update, rewire nor push is performed
C11_OpenDecidesInitOrUpdate ==
  /\ []((Current /\ "openerror" \in ops[idx]) =>
          /\ pc \in {"returned", "done"}
          /\ err = "OpenError"
          /\ exit \in {"running", "exit1"}
          /\ ops[idx] \cap {"init", "update", "rewire", "push"} = {})
  /\ []((Current /\ "init" \in ops[idx]) => "update" \notin ops[idx])
  /\ [][CheckInitStep =>
          /\ pc' \in {"init", "update", "returned"}
          /\ (pc' = "init") <=>
               ("openerror" \notin ops'[idx] /\ ~shadow[sourceClonePath].repo)
          /\ (pc' = "update") <=>
               ("openerror" \notin ops'[idx] /\ shadow[sourceClonePath].repo)
          /\ (pc' = "returned") <=> ("openerror" \in ops'[idx])
          /\ (pc' = "init") => (r' = NilRepo /\ err' = Nil)
          /\ (pc' = "update") => (r' = sourceClonePath /\ err' = Nil)
          /\ (pc' = "returned") => (err' = "OpenError")]_vars
  /\ [][(Current /\ idx' = idx /\ run' = run) =>
          /\ ("init" \in ops'[idx] /\ "init" \notin ops[idx]) => pc = "init"
          /\ ("update" \in ops'[idx] /\ "update" \notin ops[idx]) => pc = "update"]_vars

\* an existing shadow could not be opened: the sync returned the error
C11_Witness ==
  /\ Current /\ pc = "returned" /\ err = "OpenError"
  /\ "openerror" \in ops[idx]
  /\ shadow[sourceClonePath].repo

\* the step in which repositoryShadowPushToNewOrigin returns
PushStep == pc = "push" /\ pc' = "returned"

\* the destination of the current pair holds every ref the shadow holds
Delivered(refsOfUrl) ==
  MirrorRefs(shadow[r].refs, refsOfUrl[syncOptionDestination.RepoUrl])
    = refsOfUrl[syncOptionDestination.RepoUrl]

\* C12: no rollback. When the push fails (an error other than up-to-date)
\* after the shadow was updated, doRepositoriesSync returns the push error and
\* the shadow's ref set stays as the preceding fetch left it; the shadow is
\* kept between runs and a push sends whatever refs the shadow then holds, so
\* a later sync of the pair retries the push from that shadow
C12_NoRollbackOnPushFailure ==
  /\ []((Current /\ pc = "returned" /\ err # Nil /\ "push" \in ops[idx]) =>
          /\ err \in ProviderFailures
          /\ EnsureSucceeded
          /\ r = sourceClonePath
          /\ shadow[r].repo
          /\ MirrorRefs(srcAtFetch, shadow[r].refs) = shadow[r].refs)
  /\ [][PushStep =>
          /\ shadow' = shadow
          /\ ~Delivered(remoteRefs') => err' \in ProviderFailures
          /\ err' # Nil => remoteRefs' = remoteRefs
          /\ err' = Nil => Delivered(remoteRefs')]_vars
  /\ [][(pc \in {"dstkey", "returned", "done"}) => (shadow' = shadow)]_vars

\* the push of the first run failed and left the destination without the
\* shadow's refs; the second run has updated the same shadow and is about to
\* push from it
C12_Witness ==
  /\ run = 2 /\ Current /\ pc = "push" /\ changes = 0
  /\ Len(syncOptions) = 1
  /\ EnsureSucceeded /\ "update" \in ops[idx]
  /\ r # NilRepo /\ syncOptionDestination # NilPtr
  /\ <<syncOptionDestination.RepoUrl, PublicKeys(syncOptionDestination)>> \in pushed
  /\ ~Delivered(remoteRefs)

\* C13: shadow lifecycle. A repository once created at a shadow path is never
\* deleted and never initialized again, its remotes and refs are never taken
\* away; it is created only by the Init step of a sync whose source URL hashes
\* to that path, and every sync that finds it there takes the Update path on
\* that same path, whatever its destination
C13_ShadowLifecycle ==
  /\ []((Current /\ sourceClonePath # NilRepo) =>
          /\ syncOptionSource # NilPtr
          /\ sourceClonePath =
               SourceClonePath(syncOptionSource.RepoUrl, ShadowsLocationBasePath))
  /\ []((Current /\ r # NilRepo) => (r = sourceClonePath /\ shadow[r].repo))
  /\ [][\A p \in Paths :
          /\ shadow[p].dir => shadow'[p].dir
          /\ shadow[p].repo =>
               /\ shadow'[p].repo
               /\ shadow[p].remotes \subseteq shadow'[p].remotes
               /\ \A n \in RefNames :
                    shadow[p].refs[n] # 0 => shadow'[p].refs[n] # 0
          /\ (shadow'[p].repo /\ ~shadow[p].repo) =>
               (pc = "init" /\ p = sourceClonePath)]_vars
  /\ [][(pc = "init" /\ pc' # "init") => ~shadow[sourceClonePath].repo]_vars
  /\ [][(CheckInitStep /\ shadow[sourceClonePath].repo) =>
          \/ pc' = "update" /\ r' = sourceClonePath
          \/ pc' = "returned" /\ err' = "OpenError"]_vars

\* a second pair with the same source and another destination has updated the
\* shadow the first pair created
C13_Witness ==
  /\ Current /\ idx = 2 /\ run = 1
  /\ syncOptions[1].SourceName = syncOptions[2].SourceName
  /\ syncOptions[1].DestinationName # syncOptions[2].DestinationName
  /\ "init" \in ops[1]
  /\ "update" \in ops[2] /\ "init" \notin ops[2]
  /\ EnsureSucceeded
  /\ r = SourceClonePath(getRepositoryAccess(syncOptions[1].SourceName).RepoUrl,
                         ShadowsLocationBasePath)

(* ------------------- the path derivation on its own ------------------- *)
\* how many derivations a behaviour of DeriveSpec makes
MaxDerived == 2

\* no program is running: only paths are derived
DeriveInit ==
  /\ syncOptions = << >>
  /\ remoteRefs = InitialRemoteRefs
  /\ changes = 0
  /\ shadow = [p \in Paths |-> NoShadow]
  /\ run = 1
  /\ pc = "derive"
  /\ idx = 0
  /\ syncOptionSource = NilPtr
  /\ syncOptionDestination = NilPtr
  /\ sourceClonePath = NilRepo
  /\ r = NilRepo
  /\ err = Nil
  /\ remoteDestination = NilPtr
  /\ exit = "running"
  /\ ops = << >>
  /\ srcAtFetch = NilPtr
  /\ lastEnsure = [p \in Paths |-> NilPtr]
  /\ fetched = {}
  /\ pushed = {}
  /\ derived = {}

\* lines 86-92 of repositoryShadowCreateDir applied to a source URL and a
\* shadows location of the corpus
DeriveCall ==
  /\ pc = "derive"
  /\ Cardinality(derived) < MaxDerived
  /\ \E sourceRepoUrl \in UrlCorpus, tmpPath \in BasePaths :
       derived' = derived \cup {Derivation(sourceRepoUrl, tmpPath)}
  /\ UNCHANGED <<world, shadow, run, pc, idx, locals, exit, ops, srcAtFetch,
                 lastEnsure, fetched, pushed>>

DeriveSpec == DeriveInit /\ [][DeriveCall]_vars

\* C14: the shadow path derivation is deterministic and collision-free: two
\* derivations give the same path exactly when their source URL strings (and
\* shadows locations) are identical, the path depends on nothing else
C14_PathIsInjectiveInUrl ==
  \A d1, d2 \in derived :
    /\ (d1.path = d2.path) <=> (d1.url = d2.url /\ d1.tmpPath = d2.tmpPath)
    /\ d1.path = SourceClonePath(d1.url, d1.tmpPath)

\* two different source URLs were derived under one shadows location, one of
\* them a near variant of the other
C14_Witness ==
  \E d1, d2 \in derived :
    /\ d1.url = "git@host:a.git" /\ d2.url = "git@host:a.git/"
    /\ d1.tmpPath = d2.tmpPath
    /\ d1.path # d2.path

\* C15: the push is a force/mirror push: after a successful push the
\* destination's refs match the shadow's exactly, every ref of the shadow is
\* at the destination with the same target and a ref the destination held
\* that the shadow does not have is no longer there
C15_ForceMirrorPush ==
  (SyncSucceeded /\ "push" \in ops[idx]) =>
    remoteRefs[syncOptionDestination.RepoUrl] = shadow[r].refs

\* C16: whenever doRepositoriesSync reaches the rewire-and-push step, the
\* shadow handle is valid and its origin remote exists; whatever the provider
\* returned before, the push step ends in an error or a success and never
\* dereferences a missing repository or a missing remote
C16_PushNeverDereferencesNil ==
  /\ (Current /\ pc = "push") =>
       /\ r # NilRepo
       /\ shadow[r].repo
       /\ StoredRemotes(r, DefaultRemoteName) # {}
  /\ (Current /\ "dstkey" \in ops[idx]) => exit # "panic"

\* the <<URL, credential>> a fetch of the current pair is addressed to, and
\* the one its push is addressed to
SourceEndpoint == <<syncOptionSource.RepoUrl, PublicKeys(syncOptionSource)>>
DestinationEndpoint ==
  <<syncOptionDestination.RepoUrl, PublicKeys(syncOptionDestination)>>

\* URLs of the sources and of the destinations of the configured pairs
SourceUrls ==
  {u \in Urls : \E i \in 1..Len(syncOptions) :
     LET a == getRepositoryAccess(syncOptions[i].SourceName) IN
     a # NilPtr /\ a.RepoUrl = u}
DestinationUrls ==
  {u \in Urls : \E i \in 1..Len(syncOptions) :
     LET a == getRepositoryAccess(syncOptions[i].DestinationName) IN
     a # NilPtr /\ a.RepoUrl = u}

\* C17: for a pair (S, D) every fetch is addressed to S's URL with S's
\* credential and every push to D's URL with D's credential; a source is
\* never pushed to and a destination never fetched from, unless it is also
\* configured in the other role
C17_FetchFromSourcePushToDestination ==
  [][/\ fetched' # fetched =>
          /\ pc \in {"init", "update"}
          /\ syncOptionSource = getRepositoryAccess(syncOptions[idx].SourceName)
          /\ fetched' = fetched \cup {SourceEndpoint}
          /\ SourceEndpoint[1] \in SourceUrls
     /\ pushed' # pushed =>
          /\ pc = "push"
          /\ syncOptionDestination =
               getRepositoryAccess(syncOptions[idx].DestinationName)
          /\ pushed' = pushed \cup {DestinationEndpoint}
          /\ DestinationEndpoint[1] \in DestinationUrls
     /\ (srcAtFetch = NilPtr /\ srcAtFetch' # NilPtr) =>
          SourceEndpoint \in fetched'
     /\ (Current /\ idx' = idx /\ run' = run /\ "push" \in ops'[idx]
           /\ "push" \notin ops[idx]) => DestinationEndpoint \in pushed']_vars

\* a second run fetched into the shadow again after the first run had pushed
\* from it: both fetches went to the source, the push to the destination
C17_Witness ==
  /\ run = 2 /\ Current /\ pc = "dstkey"
  /\ "update" \in ops[idx] /\ "fetch" \in ops[idx] /\ EnsureSucceeded
  /\ pushed # {}
  /\ fetched = {SourceEndpoint}

\* C18: every shadow that holds a repository has exactly one remote binding,
\* named origin, in every reachable state, also after an Init that failed
\* partway (repository created, then the remote creation or the first fetch
\* failed), so that a later Update can always fetch
C18_PresentShadowHasOrigin ==
  \A p \in Paths :
    shadow[p].repo =>
      /\ Cardinality(shadow[p].remotes) = 1
      /\ Cardinality(StoredRemotes(p, DefaultRemoteName)) = 1

(* ----------------------------- termination ---------------------------- *)
\* the process keeps running: main is sequential code and every provider
\* operation it calls returns, so whenever it has a next step it takes one.
\* Restarts of the program and third-party changes are not forced.
FairSpec == Spec /\ WF_vars(main)

\* the pairs before position i of the configuration were fetched and pushed
SyncedBefore(i) ==
  \A j \in 1..(i - 1) : {"fetch", "rewire", "push"} \subseteq ops[j]

\* the pairs after position i of the configuration were not touched
UntouchedAfter(i) == \A j \in (i + 1)..Len(syncOptions) : ops[j] = {}

\* C19: provided every provider operation returns, a run of main always
\* terminates. It ends successfully only if every configured pair was synced
\* (fetched, then pushed) exactly once, in configuration order; otherwise it
\* ends at the first failing pair with a failure status
C19_MainTerminates ==
  /\ (pc = "start") ~> (pc = "done")
  /\ []((pc = "done") <=> (exit # "running"))
  /\ [](exit = "exit0" =>
          /\ idx = Len(syncOptions) + 1
          /\ SyncedBefore(idx))
  /\ []((pc = "done" /\ exit # "exit0") =>
          /\ exit \in {"exit1", "panic"}
          /\ idx \in 0..Len(syncOptions)
          /\ SyncedBefore(idx)
          /\ UntouchedAfter(idx))
  /\ [][(pc = "loop" /\ pc' = "createdir") =>
          /\ idx' = idx
          /\ ops[idx] = {}
          /\ SyncedBefore(idx)
          /\ UntouchedAfter(idx)]_vars
  /\ [][(idx' # idx) =>
          \/ pc = "returned" /\ err = Nil /\ idx' = idx + 1
          \/ pc = "start" /\ idx' = 1
          \/ pc = "done" /\ idx' = 0]_vars
  /\ [][(Current /\ idx' = idx /\ run' = run
           /\ "push" \in ops'[idx] /\ "push" \notin ops[idx]) =>
          "fetch" \in ops[idx]]_vars

\* a run over two pairs ended with status 0
C19_Witness ==
  /\ pc = "done" /\ exit = "exit0"
  /\ Len(syncOptions) = 2
  /\ SyncedBefore(3)

====
